---- MODULE Spec2Model ----
(***************************************************************************)
(* A model of examples/contrib/gmixup_graph_augmentation.py: the G-Mixup   *)
(* graph-classification example.  The script is one top-to-bottom control  *)
(* flow; pc is the position of the process in it.                          *)
(*                                                                         *)
(* Tensors are modelled by what the script reads of them.  edge_index is a *)
(* sequence of runs <<src, dst, mult>>: mult consecutive columns (src,dst) *)
(* of the 2 x E tensor, so that degrees around the threshold of line 53    *)
(* can be written down.  A feature matrix is its shape and its encoding.   *)
(* The train/test lists hold references to the graph objects of ds; a      *)
(* reference is the (0-based) dataset index of the object.                 *)
(***************************************************************************)
EXTENDS Integers, Sequences, FiniteSets

VARIABLES pc, exc, args, gen, disk, ds, ds_attrs, shuffled_indices,
          train, test, pool, scheduler_steps, optimizer_steps, prev

vars == <<pc, exc, args, gen, disk, ds, ds_attrs, shuffled_indices,
          train, test, pool, scheduler_steps, optimizer_steps, prev>>

(* ------------------------------ bounds --------------------------------- *)
MaxN == 4
MaxSeed == 2
MaxEntropy == 1
MaxEpochs == 1
MaxBatch == 1

\* --aug-ratio values, as exact fractions <<numerator, denominator>>; each
\* is a binary fraction, so the float product of line 98 is exact.
AugRatios == { <<0, 1>>, <<1, 2>>, <<3, 2>> }

(* ------------------------- sequence helpers ---------------------------- *)
Max(a, b) == IF a >= b THEN a ELSE b

RECURSIVE SeqMax(_)
SeqMax(s) ==
    IF Len(s) = 1 THEN s[1] ELSE Max(s[1], SeqMax(Tail(s)))

RECURSIVE SeqsOfLen(_, _)
SeqsOfLen(S, k) ==
    IF k = 0 THEN { <<>> }
    ELSE { <<x>> \o s : x \in S, s \in SeqsOfLen(S, k - 1) }

Range(s) == { s[i] : i \in DOMAIN s }

(* ------------------------- the dataset on disk ------------------------- *)
\* Raw graphs as TUDataset yields them: structure and an integer label, no
\* node features.  Undirected stores both directions of an edge, Directed
\* does not (its highest node, 2, is only ever a target); the two Hub
\* graphs carry a node of degree 1999 and of degree 2000.
NoX == [rows |-> 0, cols |-> 0, enc |-> "none"]

RawGraph(edges, nodes, label) ==
    [edge_index |-> edges, num_nodes |-> nodes, y |-> <<label>>, x |-> NoX]

Undirected == RawGraph(<< <<0, 1, 1>>, <<1, 0, 1>> >>, 2, 0)
Directed == RawGraph(<< <<0, 1, 1>>, <<0, 2, 1>> >>, 3, 1)
HubBelow == RawGraph(<< <<0, 1, 1999>>, <<1, 0, 1999>> >>, 2, 0)
HubAt == RawGraph(<< <<0, 1, 2000>>, <<1, 0, 2000>> >>, 2, 1)

GraphShapes == { Undirected, Directed, HubBelow, HubAt }

NumClasses == 2

Datasets == UNION { SeqsOfLen(GraphShapes, k) : k \in 0..MaxN }

(* -------------------- create_node_features (39-62) --------------------- *)
\* torch_geometric.utils.degree(index): a vector of length max(index) + 1
\* whose entry v counts the occurrences of v in index.  Position v + 1 of
\* the sequence is node v.
RECURSIVE Occurrences(_, _)
Occurrences(runs, v) ==
    IF runs = <<>> THEN 0
    ELSE (IF runs[1][1] = v THEN runs[1][2] ELSE 0) + Occurrences(Tail(runs), v)

Degree(index) ==
    [ k \in 1..(SeqMax([ i \in DOMAIN index |-> index[i][1] ]) + 1) |->
        Occurrences(index, k - 1) ]

\* edge_index[0], the row of source endpoints, as runs <<node, mult>>.
SourceRow(edge_index) ==
    [ i \in DOMAIN edge_index |-> <<edge_index[i][1], edge_index[i][3]>> ]

\* line 48: int(torch.max(graph.edge_index)) + 1, the maximum over both rows.
NumNodesOf(edge_index) ==
    SeqMax([ i \in DOMAIN edge_index |->
                Max(edge_index[i][1], edge_index[i][2]) ]) + 1

\* F.one_hot(v, num_classes = k) of a single class index: a row of length k.
OneHotRow(v, k) == [ c \in 1..k |-> IF c = v + 1 THEN 1 ELSE 0 ]

\* line 55: F.one_hot(degrees, num_classes = max_degree + 1): one row per
\* entry of degrees, max_degree + 1 columns; row i is hot at column deg[i].
\* Faulty variant: the width taken from the graph's own maximum degree.
OneHotX_PerGraphWidth(degrees, max_degree) ==
    [rows |-> Len(degrees), cols |-> SeqMax(degrees) + 1,
     enc |-> "onehot", deg |-> degrees]

OneHotX(degrees, max_degree) ==
    [rows |-> Len(degrees), cols |-> max_degree + 1,
     enc |-> "onehot", deg |-> degrees]

\* line 61: ((degrees - mean) / std).view(-1, 1): one row per entry of
\* degrees, a single column; row i is the z-score of deg[i].
ZScoreX(degrees) ==
    [rows |-> Len(degrees), cols |-> 1, enc |-> "zscore", deg |-> degrees]

\* line 53: the sparsity threshold.
DegreeThreshold == 2000

AllDegrees(dataset) ==
    [ i \in DOMAIN dataset |-> Degree(SourceRow(dataset[i].edge_index)) ]

\* line 51: max(d.max().item() for d in all_degrees); dataset is not empty.
MaxDegree(dataset) ==
    SeqMax([ i \in DOMAIN dataset |-> SeqMax(AllDegrees(dataset)[i]) ])

\* The list create_node_features returns for a dataset that is not empty.
NodeFeatures(dataset) ==
    LET all_degrees == AllDegrees(dataset)
        max_degree == MaxDegree(dataset)
    IN  [ i \in DOMAIN dataset |->
            [ edge_index |-> dataset[i].edge_index,
              num_nodes |-> NumNodesOf(dataset[i].edge_index),
              y |-> OneHotRow(dataset[i].y[1], NumClasses),
              x |-> IF max_degree < DegreeThreshold
                    THEN OneHotX(all_degrees[i], max_degree)
                    ELSE ZScoreX(all_degrees[i]) ] ]

(* ------------------- the random generator (82, 88) --------------------- *)
\* torch's default generator, reduced to a linear congruential generator
\* on 6 bits: the state determines every later draw.
NextGen(g) == (5 * g + 3) % 64

\* line 82: torch.manual_seed(seed) puts the generator in the state the
\* seed names, whatever state it was in.
\* Faulty variant: the seed is not applied.
ManualSeed_NoReseed(g, seed) == g

ManualSeed(g, seed) == seed % 64

\* line 88: torch.randperm(n) on the CPU is a Fisher-Yates shuffle of
\* 0..n-1: for i in 0..n-2, swap r[i] with r[i + random() % (n - i)].
\* r is 1-based here, its values are the 0-based indices.
Swap(r, a, b) == [r EXCEPT ![a] = r[b], ![b] = r[a]]

RECURSIVE FisherYates(_, _, _)
FisherYates(r, i, g) ==
    IF i >= Len(r) - 1 THEN r
    ELSE LET g1 == NextGen(g)
             z == g1 % (Len(r) - i)
         IN  FisherYates(Swap(r, i + 1, i + 1 + z), i + 1, g1)

RandPerm(n, g) == FisherYates([ k \in 1..n |-> k - 1 ], 0, g)

RECURSIVE Advance(_, _)
Advance(g, draws) ==
    IF draws <= 0 THEN g ELSE Advance(NextGen(g), draws - 1)

(* -------------------------- the split (87-90) -------------------------- *)
\* line 87: int(0.8 * n).  The double 0.8 exceeds 8/10 by less than 1e-16,
\* so for every n below 2^40 the truncated product is floor(8n / 10).
\* Faulty variant: the shares swapped, int(0.2 * n).
NTrain_Fifth(n) == (2 * n) \div 10

NTrain(n) == (8 * n) \div 10

\* line 89: [ds[i] for i in shuffled_indices[:ntrain]]
TrainSlice(perm, ntrain) == SubSeq(perm, 1, ntrain)

\* line 90: [ds[i] for i in shuffled_indices[ntrain:]]
\* Faulty variant: shuffled_indices[ntrain+1:].
TestSlice_SkipOne(perm, ntrain) == SubSeq(perm, ntrain + 2, Len(perm))

TestSlice(perm, ntrain) == SubSeq(perm, ntrain + 1, Len(perm))

(* ----------------------- augmentation (94-113) ------------------------- *)
\* int(v) of the float v = a * num / den: truncation toward zero.
IntTrunc(a, ratio) ==
    LET p == a * ratio[1]
    IN  IF p >= 0 THEN p \div ratio[2] ELSE -((-p) \div ratio[2])

\* line 98: num_samples = int(len(train) * args.aug_ratio)
\* Faulty variant: the product rounded up instead of truncated.
NumSamples_RoundUp(train_list, ratio) ==
    IntTrunc(Len(train_list), ratio)
        + (IF (Len(train_list) * ratio[1]) % ratio[2] = 0 THEN 0 ELSE 1)

NumSamples(train_list, ratio) == IntTrunc(Len(train_list), ratio)

\* An entry of the list handed to the training loader: a graph of the
\* training split (by its dataset index) or the k-th synthetic graph.
FromTrain(train_list) ==
    [ i \in DOMAIN train_list |-> [src |-> "train", id |-> train_list[i]] ]

\* GMixup(train).generate(num_samples, interpolation_range): the requested
\* number of synthetic graphs.
GMixupGenerate(train_list, num_samples) ==
    [ k \in 1..num_samples |-> [src |-> "synthetic", id |-> k - 1] ]

\* line 103: train + synthetic
AugmentedPool(train_list, synthetic) == FromTrain(train_list) \o synthetic

\* DataLoader(data, batch_size): the number of mini-batches of one pass,
\* the last one partial (drop_last is off).
NumBatches(data, batch_size) == (Len(data) + batch_size - 1) \div batch_size

(* ------------------------------ the run -------------------------------- *)
NoPrev == [valid |-> FALSE, seed |-> 0, shuffled_indices |-> <<>>,
           train |-> <<>>, test |-> <<>>]

\* The command lines of the model (68-80); interpolation_range, lr and the
\* dataset name are passed through and decide nothing here.
ArgSets ==
    [ seed : 0..MaxSeed, batch_size : 1..MaxBatch, epochs : 1..MaxEpochs,
      use_mixup : BOOLEAN, aug_ratio : AugRatios ]

\* The attributes line 116 reads of ds; a TUDataset has them, a list has not.
DatasetAttrs == { "num_features", "num_classes" }

\* The process after parse_args (line 80).  The generator is in a state the
\* script has not chosen; disk is the dataset stored at --dataset-path.
Start(a, d, g) ==
    /\ pc = "seed"
    /\ exc = "none"
    /\ args = a
    /\ gen = g
    /\ disk = d
    /\ ds = <<>>
    /\ ds_attrs = {}
    /\ shuffled_indices = <<>>
    /\ train = <<>>
    /\ test = <<>>
    /\ pool = <<>>
    /\ scheduler_steps = 0
    /\ optimizer_steps = 0

Init ==
    /\ \E a \in ArgSets, d \in Datasets, g \in 0..MaxEntropy : Start(a, d, g)
    /\ prev = NoPrev

\* line 82
SeedGenerator ==
    /\ pc = "seed"
    /\ gen' = ManualSeed(gen, args.seed)
    /\ pc' = "load"
    /\ UNCHANGED <<exc, args, disk, ds, ds_attrs, shuffled_indices, train,
                   test, pool, scheduler_steps, optimizer_steps, prev>>

\* lines 84-85: ds = TUDataset(path, name)
LoadDataset ==
    /\ pc = "load"
    /\ ds' = disk
    /\ ds_attrs' = DatasetAttrs
    /\ pc' = "features"
    /\ UNCHANGED <<exc, args, gen, disk, shuffled_indices, train, test, pool,
                   scheduler_steps, optimizer_steps, prev>>

\* line 86: ds = create_node_features(ds).  On an empty dataset max() at
\* line 51 raises; otherwise ds is rebound to the list the function returns.
CreateNodeFeatures ==
    /\ pc = "features"
    /\ IF ds = <<>>
       THEN /\ pc' = "error"
            /\ exc' = "ValueError"
            /\ UNCHANGED <<ds, ds_attrs>>
       ELSE /\ ds' = NodeFeatures(ds)
            /\ ds_attrs' = {}
            /\ pc' = "split"
            /\ UNCHANGED exc
    /\ UNCHANGED <<args, gen, disk, shuffled_indices, train, test, pool,
                   scheduler_steps, optimizer_steps, prev>>

\* lines 87-91
Split ==
    /\ pc = "split"
    /\ LET ntrain == NTrain(Len(ds))
           perm == RandPerm(Len(ds), gen)
       IN  /\ shuffled_indices' = perm
           /\ train' = TrainSlice(perm, ntrain)
           /\ test' = TestSlice(perm, ntrain)
    /\ gen' = Advance(gen, Len(ds) - 1)
    /\ pc' = "loader"
    /\ UNCHANGED <<exc, args, disk, ds, ds_attrs, pool, scheduler_steps,
                   optimizer_steps, prev>>

\* lines 94-106: the loader over train + synthetic
MixupLoader ==
    /\ pc = "loader"
    /\ args.use_mixup
    /\ pool' = AugmentedPool(train,
                   GMixupGenerate(train, NumSamples(train, args.aug_ratio)))
    /\ pc' = "model"
    /\ UNCHANGED <<exc, args, gen, disk, ds, ds_attrs, shuffled_indices,
                   train, test, scheduler_steps, optimizer_steps, prev>>

\* lines 108-113: the loader over train
VanillaLoader ==
    /\ pc = "loader"
    /\ ~args.use_mixup
    /\ pool' = FromTrain(train)
    /\ pc' = "model"
    /\ UNCHANGED <<exc, args, gen, disk, ds, ds_attrs, shuffled_indices,
                   train, test, scheduler_steps, optimizer_steps, prev>>

\* lines 115-119: GCN(ds.num_features, ds.num_classes); reading an
\* attribute the object bound to ds does not have raises AttributeError.
BuildModel ==
    /\ pc = "model"
    /\ IF DatasetAttrs \subseteq ds_attrs
       THEN /\ pc' = "train"
            /\ UNCHANGED exc
       ELSE /\ pc' = "error"
            /\ exc' = "AttributeError"
    /\ UNCHANGED <<args, gen, disk, ds, ds_attrs, shuffled_indices, train,
                   test, pool, scheduler_steps, optimizer_steps, prev>>

\* The training loop (121-138) and the evaluation (140-151) start at
\* pc = "train".  ds is a list from line 86 on, so BuildModel always takes
\* its error branch and no run reaches them: scheduler_steps and
\* optimizer_steps keep the value they have before the first epoch.
Next ==
    \/ SeedGenerator
    \/ LoadDataset
    \/ CreateNodeFeatures
    \/ Split
    \/ MixupLoader
    \/ VanillaLoader
    \/ BuildModel

Spec == Init /\ [][Next]_vars

(* ------------------------- running it again ---------------------------- *)
\* The script is started a second time on the same dataset directory with
\* some --seed; the new process has a generator of its own.  prev keeps
\* what the first run printed and split.
Rerun ==
    /\ pc \in {"error", "train"}
    /\ ~prev.valid
    /\ prev' = [valid |-> TRUE, seed |-> args.seed,
                shuffled_indices |-> shuffled_indices,
                train |-> train, test |-> test]
    /\ \E s \in 0..MaxSeed : args' = [args EXCEPT !.seed = s]
    /\ gen' \in 0..MaxEntropy
    /\ pc' = "seed"
    /\ exc' = "none"
    /\ ds' = <<>>
    /\ ds_attrs' = {}
    /\ shuffled_indices' = <<>>
    /\ train' = <<>>
    /\ test' = <<>>
    /\ pool' = <<>>
    /\ scheduler_steps' = 0
    /\ optimizer_steps' = 0
    /\ UNCHANGED disk

InitRepeat ==
    /\ \E a \in ArgSets, d \in Datasets, g \in 0..MaxEntropy :
          /\ a.aug_ratio = <<1, 2>>
          /\ a.epochs = 1
          /\ a.batch_size = 1
          /\ Start(a, d, g)
    /\ prev = NoPrev

NextRepeat == Next \/ Rerun

SpecRepeat == InitRepeat /\ [][NextRepeat]_vars

(* ---------------------------- properties ------------------------------- *)
FeaturesBuilt ==
    \/ pc \in {"split", "loader", "model", "train"}
    \/ pc = "error" /\ exc = "AttributeError"

SplitDone ==
    \/ pc \in {"loader", "model", "train"}
    \/ pc = "error" /\ exc = "AttributeError"

LoaderBuilt ==
    \/ pc \in {"model", "train"}
    \/ pc = "error" /\ exc = "AttributeError"

Identity(n) == [ k \in 1..n |-> k - 1 ]

\* C1: once the split is made, train and test together hold every dataset
\* index exactly once: the sizes add up to len(ds), no index is in both
\* splits, none is repeated and none is missing.
SplitIsPartition ==
    SplitDone =>
        /\ Len(train) + Len(test) = Len(ds)
        /\ Range(train) \cap Range(test) = {}
        /\ Range(train) \cup Range(test) = 0..(Len(ds) - 1)
        /\ Cardinality(Range(train)) = Len(train)
        /\ Cardinality(Range(test)) = Len(test)

SplitIsPartition_Witness ==
    /\ SplitDone
    /\ Len(train) >= 2
    /\ Len(test) >= 1
    /\ shuffled_indices # Identity(Len(ds))

\* C2: for a dataset of n >= 2 graphs the training split is 80% of n and
\* the test split 20% of n, each off by less than one graph; 100 graphs
\* give 80 and 20.
SplitIsEightyTwenty ==
    /\ (SplitDone /\ Len(ds) >= 2) =>
          /\ 10 * Len(train) - 8 * Len(ds) \in -9..9
          /\ 10 * Len(test) - 2 * Len(ds) \in -9..9
          /\ Len(train) >= 1
          /\ Len(test) >= 1
    /\ NTrain(100) = 80
    /\ 100 - NTrain(100) = 20

SplitIsEightyTwenty_Witness ==
    /\ SplitDone
    /\ Len(ds) = 4
    /\ Len(train) = 3
    /\ Len(test) = 1

\* C3: with augmentation on, the list handed to the training loader is the
\* training split followed by floor(len(train) * aug_ratio) synthetic graphs;
\* with --vanilla it is the training split, graph for graph.
PoolSize ==
    LoaderBuilt =>
        /\ Len(pool) >= Len(train)
        /\ \A i \in 1..Len(train) :
              pool[i].src = "train" /\ pool[i].id = train[i]
        /\ \A i \in (Len(train) + 1)..Len(pool) : pool[i].src = "synthetic"
        /\ IF args.use_mixup
           THEN LET k == Len(pool) - Len(train)
                    num == args.aug_ratio[1]
                    den == args.aug_ratio[2]
                IN  /\ k * den <= Len(train) * num
                    /\ Len(train) * num < (k + 1) * den
           ELSE Len(pool) = Len(train)

PoolSize_Witness ==
    /\ LoaderBuilt
    /\ args.use_mixup
    /\ Len(train) = 3
    /\ args.aug_ratio = <<1, 2>>
    /\ Len(pool) = 4

\* C5: a run on a dataset whose train and test splits are both non-empty
\* never stops with an error.
NoErrorOnValidRun ==
    ~(pc = "error" /\ train # <<>> /\ test # <<>>)

\* C6: after feature construction every graph's feature matrix has the same
\* number of columns: the dataset-wide maximum degree plus one, all one-hot,
\* when that maximum is below the threshold, and one, all z-scores, otherwise.
UniformFeatureWidth ==
    FeaturesBuilt =>
        LET m == MaxDegree(disk)
        IN  /\ \A i \in DOMAIN ds :
                  /\ ds[i].x.cols = IF m < 2000 THEN m + 1 ELSE 1
                  /\ ds[i].x.enc = IF m < 2000 THEN "onehot" ELSE "zscore"
            /\ \A i, j \in DOMAIN ds : ds[i].x.cols = ds[j].x.cols

UniformFeatureWidth_Witness ==
    /\ FeaturesBuilt
    /\ \E i, j \in DOMAIN ds :
          /\ SeqMax(ds[i].x.deg) < SeqMax(ds[j].x.deg)
          /\ ds[i].x.enc = "onehot"
          /\ ds[j].x.cols = 2000

\* C7: a second run on the same dataset with the same --seed makes the same
\* shuffle and the same train and test splits as the first.
SameSeedSameSplit ==
    (prev.valid /\ prev.seed = args.seed /\ SplitDone) =>
        /\ shuffled_indices = prev.shuffled_indices
        /\ train = prev.train
        /\ test = prev.test

SameSeedSameSplit_Witness ==
    /\ prev.valid
    /\ prev.seed = args.seed
    /\ SplitDone
    /\ Len(ds) >= 3
    /\ shuffled_indices # Identity(Len(ds))

\* C8: when a run on non-empty splits has ended, the scheduler has stepped
\* once per epoch and the optimizer once per mini-batch of every epoch.
TrainsEveryEpoch ==
    (pc \in {"error", "done"} /\ train # <<>> /\ test # <<>>) =>
        /\ scheduler_steps = args.epochs
        /\ optimizer_steps = args.epochs * NumBatches(pool, args.batch_size)

\* C10: after feature construction the feature matrix of every graph has
\* one row per node: x.rows = num_nodes.
FeatureRowsMatchNumNodes ==
    FeaturesBuilt => \A i \in DOMAIN ds : ds[i].x.rows = ds[i].num_nodes

====
